---- MODULE Spec2Model ----
(***************************************************************************)
(* The haiku rating engine of rate_poems.py: the ELO update, the rolling   *)
(* dimension averages, the pair selector, the judge retry loop and the     *)
(* session that main() drives over the corpus file.                        *)
(*                                                                         *)
(* Six specifications share the actions: Spec (runs of main), SpecElo      *)
(* (the update alone), SpecJudge (the judging loop under every kind of     *)
(* response), SpecCrash (runs that can be cut short), SpecSummary (the     *)
(* summary of a corpus larger than a top list) and SpecSelect (the         *)
(* selection after the cap has dropped an opponent).                       *)
(*                                                                         *)
(* Units.  Ratings are kept in tenths of a point (round(x, 1) in the       *)
(* code), dimension scores and averages in hundredths (round(x, 2)),       *)
(* expected scores in millionths.                                          *)
(***************************************************************************)
EXTENDS Integers, Sequences, FiniteSets, TLC

VARIABLES
  disk,        \* ratings/corpus.json: missing, or the list of poems it holds,
               \* or (not whole) the beginning of a text being written
  ratings,     \* ratings/ratings.json: "missing" or the written summary
  pc,          \* position of main()
  poems,       \* main's list of poems (the in-memory store)
  n,           \* args.pairs of the running session
  pairs,       \* select_pairs: the pairs chosen so far, as index pairs
  attempts,    \* select_pairs: draw attempts made
  warned,      \* select_pairs printed its "only found" warning
  i,           \* main: 1-based position in pairs
  attempt,     \* judge_pair: oracle calls made for the current pair
  sleeps,      \* judge_pair: time.sleep(2) calls made for the current pair
  response,    \* judge_pair: what the last oracle call gave, parsed
  stats,       \* main: wins_a, wins_b, draws, errors
  log,         \* history: the matches applied to the store, oldest first
  applied,     \* history: matches applied to the store since the initial state
  sessions,    \* history: runs of main() started
  requested    \* history: sum of args.pairs over the runs started

vars == <<disk, ratings, pc, poems, n, pairs, attempts, warned, i, attempt,
          sleeps, response, stats, log, applied, sessions, requested>>

(***************************************************************************)
(* Bounds of the model.                                                    *)
(***************************************************************************)
MaxSessions == 2     \* runs of main()
MaxRequested == 2    \* pairs requested, summed over the runs
MaxApplied == 2      \* update steps of SpecElo after its initial corpus

(***************************************************************************)
(* Program constants.                                                      *)
(***************************************************************************)
K_FACTOR_NEW == 32
K_FACTOR_OLD == 16
RECENT_OPPONENT_MEMORY == 10
BaseElo == 15000         \* "elo": 1500, in tenths
One == 1000000           \* the float 1.0, in millionths
EloQuantum == 100000     \* one tenth of a point, in millionths of a point
Score == 100             \* the score 1, in hundredths
None == -1               \* Python's None in a number-valued slot
NoReasoning == "None"    \* last_reasoning: None

Dims == {"image_precision", "cut", "economy", "resonance", "originality", "musicality"}

Min(x, y) == IF x <= y THEN x ELSE y

Take(s, k) == SubSeq(s, 1, Min(k, Len(s)))

InSeq(x, s) == \E j \in 1..Len(s) : s[j] = x

(***************************************************************************)
(* Corpus construction (build_corpus.py): human poems first, then AI       *)
(* poems, every rating field at its default.                               *)
(***************************************************************************)
HumanIds == <<"human-basho-1", "human-basho-2", "human-issa-1", "human-issa-2">>
AiIds == <<"ai-book-1", "ai-book-2", "ai-book-3", "ai-book-4", "ai-book-5",
           "ai-book-6", "ai-book-7", "ai-book-8", "ai-book-9", "ai-book-10",
           "ai-book-11">>

FreshPoem(id, source) ==
  [id |-> id, source |-> source, elo |-> BaseElo,
   matches |-> 0, wins |-> 0, losses |-> 0, draws |-> 0,
   dim_averages |-> [d \in Dims |-> None],
   last_reasoning |-> NoReasoning,
   recent_opponents |-> <<>>]

FreshCorpus(size) ==
  LET humans == (size + 1) \div 2
  IN [j \in 1..size |->
        IF j <= humans THEN FreshPoem(HumanIds[j], "human")
                       ELSE FreshPoem(AiIds[j - humans], "ai")]

(***************************************************************************)
(* ELO math.                                                               *)
(***************************************************************************)
\* ExpectedTable[d + 1] is 1.0 / (1.0 + 10 ** (-d / 4000)) in millionths, for a
\* rating lead of d tenths, 0 <= d <= 1600, as the code's floats give it.
ExpectedTable ==
  <<
    500000, 500144, 500288, 500432, 500576, 500720, 500863, 501007, 501151, 501295,
    501439, 501583, 501727, 501871, 502015, 502159, 502303, 502446, 502590, 502734,
    502878, 503022, 503166, 503310, 503454, 503598, 503742, 503886, 504029, 504173,
    504317, 504461, 504605, 504749, 504893, 505037, 505181, 505325, 505468, 505612,
    505756, 505900, 506044, 506188, 506332, 506476, 506620, 506763, 506907, 507051,
    507195, 507339, 507483, 507627, 507771, 507914, 508058, 508202, 508346, 508490,
    508634, 508778, 508922, 509065, 509209, 509353, 509497, 509641, 509785, 509929,
    510072, 510216, 510360, 510504, 510648, 510792, 510936, 511079, 511223, 511367,
    511511, 511655, 511799, 511942, 512086, 512230, 512374, 512518, 512662, 512805,
    512949, 513093, 513237, 513381, 513524, 513668, 513812, 513956, 514100, 514243,
    514387, 514531, 514675, 514819, 514962, 515106, 515250, 515394, 515537, 515681,
    515825, 515969, 516113, 516256, 516400, 516544, 516688, 516831, 516975, 517119,
    517263, 517406, 517550, 517694, 517837, 517981, 518125, 518269, 518412, 518556,
    518700, 518843, 518987, 519131, 519275, 519418, 519562, 519706, 519849, 519993,
    520137, 520280, 520424, 520568, 520711, 520855, 520999, 521142, 521286, 521430,
    521573, 521717, 521861, 522004, 522148, 522292, 522435, 522579, 522722, 522866,
    523010, 523153, 523297, 523440, 523584, 523728, 523871, 524015, 524158, 524302,
    524445, 524589, 524733, 524876, 525020, 525163, 525307, 525450, 525594, 525737,
    525881, 526024, 526168, 526311, 526455, 526599, 526742, 526886, 527029, 527172,
    527316, 527459, 527603, 527746, 527890, 528033, 528177, 528320, 528464, 528607,
    528751, 528894, 529037, 529181, 529324, 529468, 529611, 529754, 529898, 530041,
    530185, 530328, 530471, 530615, 530758, 530902, 531045, 531188, 531332, 531475,
    531618, 531762, 531905, 532048, 532192, 532335, 532478, 532622, 532765, 532908,
    533051, 533195, 533338, 533481, 533624, 533768, 533911, 534054, 534197, 534341,
    534484, 534627, 534770, 534914, 535057, 535200, 535343, 535486, 535630, 535773,
    535916, 536059, 536202, 536345, 536489, 536632, 536775, 536918, 537061, 537204,
    537347, 537490, 537634, 537777, 537920, 538063, 538206, 538349, 538492, 538635,
    538778, 538921, 539064, 539207, 539350, 539493, 539636, 539779, 539922, 540065,
    540208, 540351, 540494, 540637, 540780, 540923, 541066, 541209, 541352, 541495,
    541638, 541781, 541924, 542066, 542209, 542352, 542495, 542638, 542781, 542924,
    543066, 543209, 543352, 543495, 543638, 543781, 543923, 544066, 544209, 544352,
    544495, 544637, 544780, 544923, 545066, 545208, 545351, 545494, 545637, 545779,
    545922, 546065, 546207, 546350, 546493, 546635, 546778, 546921, 547063, 547206,
    547349, 547491, 547634, 547776, 547919, 548062, 548204, 548347, 548489, 548632,
    548774, 548917, 549059, 549202, 549344, 549487, 549629, 549772, 549914, 550057,
    550199, 550342, 550484, 550627, 550769, 550912, 551054, 551196, 551339, 551481,
    551624, 551766, 551908, 552051, 552193, 552335, 552478, 552620, 552762, 552905,
    553047, 553189, 553331, 553474, 553616, 553758, 553900, 554043, 554185, 554327,
    554469, 554612, 554754, 554896, 555038, 555180, 555322, 555465, 555607, 555749,
    555891, 556033, 556175, 556317, 556459, 556601, 556743, 556886, 557028, 557170,
    557312, 557454, 557596, 557738, 557880, 558022, 558164, 558306, 558447, 558589,
    558731, 558873, 559015, 559157, 559299, 559441, 559583, 559725, 559866, 560008,
    560150, 560292, 560434, 560576, 560717, 560859, 561001, 561143, 561284, 561426,
    561568, 561710, 561851, 561993, 562135, 562276, 562418, 562560, 562701, 562843,
    562985, 563126, 563268, 563410, 563551, 563693, 563834, 563976, 564117, 564259,
    564400, 564542, 564684, 564825, 564967, 565108, 565249, 565391, 565532, 565674,
    565815, 565957, 566098, 566239, 566381, 566522, 566664, 566805, 566946, 567088,
    567229, 567370, 567511, 567653, 567794, 567935, 568077, 568218, 568359, 568500,
    568641, 568783, 568924, 569065, 569206, 569347, 569488, 569630, 569771, 569912,
    570053, 570194, 570335, 570476, 570617, 570758, 570899, 571040, 571181, 571322,
    571463, 571604, 571745, 571886, 572027, 572168, 572309, 572450, 572591, 572731,
    572872, 573013, 573154, 573295, 573436, 573576, 573717, 573858, 573999, 574139,
    574280, 574421, 574562, 574702, 574843, 574984, 575124, 575265, 575406, 575546,
    575687, 575828, 575968, 576109, 576249, 576390, 576530, 576671, 576811, 576952,
    577092, 577233, 577373, 577514, 577654, 577795, 577935, 578076, 578216, 578356,
    578497, 578637, 578777, 578918, 579058, 579198, 579339, 579479, 579619, 579760,
    579900, 580040, 580180, 580320, 580461, 580601, 580741, 580881, 581021, 581161,
    581301, 581442, 581582, 581722, 581862, 582002, 582142, 582282, 582422, 582562,
    582702, 582842, 582982, 583122, 583262, 583402, 583541, 583681, 583821, 583961,
    584101, 584241, 584381, 584520, 584660, 584800, 584940, 585080, 585219, 585359,
    585499, 585638, 585778, 585918, 586057, 586197, 586337, 586476, 586616, 586755,
    586895, 587035, 587174, 587314, 587453, 587593, 587732, 587872, 588011, 588151,
    588290, 588429, 588569, 588708, 588848, 588987, 589126, 589266, 589405, 589544,
    589684, 589823, 589962, 590101, 590241, 590380, 590519, 590658, 590797, 590936,
    591076, 591215, 591354, 591493, 591632, 591771, 591910, 592049, 592188, 592327,
    592466, 592605, 592744, 592883, 593022, 593161, 593300, 593439, 593578, 593717,
    593855, 593994, 594133, 594272, 594411, 594549, 594688, 594827, 594966, 595104,
    595243, 595382, 595520, 595659, 595798, 595936, 596075, 596213, 596352, 596491,
    596629, 596768, 596906, 597045, 597183, 597322, 597460, 597599, 597737, 597875,
    598014, 598152, 598290, 598429, 598567, 598705, 598844, 598982, 599120, 599259,
    599397, 599535, 599673, 599811, 599950, 600088, 600226, 600364, 600502, 600640,
    600778, 600916, 601054, 601192, 601330, 601468, 601606, 601744, 601882, 602020,
    602158, 602296, 602434, 602572, 602710, 602847, 602985, 603123, 603261, 603399,
    603536, 603674, 603812, 603949, 604087, 604225, 604362, 604500, 604638, 604775,
    604913, 605050, 605188, 605326, 605463, 605601, 605738, 605876, 606013, 606150,
    606288, 606425, 606563, 606700, 606837, 606975, 607112, 607249, 607387, 607524,
    607661, 607798, 607936, 608073, 608210, 608347, 608484, 608621, 608758, 608896,
    609033, 609170, 609307, 609444, 609581, 609718, 609855, 609992, 610129, 610266,
    610402, 610539, 610676, 610813, 610950, 611087, 611223, 611360, 611497, 611634,
    611771, 611907, 612044, 612181, 612317, 612454, 612591, 612727, 612864, 613000,
    613137, 613273, 613410, 613546, 613683, 613819, 613956, 614092, 614229, 614365,
    614501, 614638, 614774, 614910, 615047, 615183, 615319, 615455, 615592, 615728,
    615864, 616000, 616136, 616273, 616409, 616545, 616681, 616817, 616953, 617089,
    617225, 617361, 617497, 617633, 617769, 617905, 618041, 618177, 618312, 618448,
    618584, 618720, 618856, 618991, 619127, 619263, 619399, 619534, 619670, 619806,
    619941, 620077, 620213, 620348, 620484, 620619, 620755, 620890, 621026, 621161,
    621297, 621432, 621568, 621703, 621838, 621974, 622109, 622244, 622380, 622515,
    622650, 622785, 622921, 623056, 623191, 623326, 623461, 623596, 623732, 623867,
    624002, 624137, 624272, 624407, 624542, 624677, 624812, 624947, 625082, 625217,
    625351, 625486, 625621, 625756, 625891, 626025, 626160, 626295, 626430, 626564,
    626699, 626834, 626968, 627103, 627238, 627372, 627507, 627641, 627776, 627910,
    628045, 628179, 628314, 628448, 628583, 628717, 628851, 628986, 629120, 629254,
    629389, 629523, 629657, 629791, 629925, 630060, 630194, 630328, 630462, 630596,
    630730, 630864, 630998, 631132, 631266, 631400, 631534, 631668, 631802, 631936,
    632070, 632204, 632338, 632472, 632605, 632739, 632873, 633007, 633140, 633274,
    633408, 633541, 633675, 633809, 633942, 634076, 634209, 634343, 634476, 634610,
    634743, 634877, 635010, 635144, 635277, 635410, 635544, 635677, 635810, 635944,
    636077, 636210, 636343, 636477, 636610, 636743, 636876, 637009, 637142, 637275,
    637408, 637541, 637674, 637807, 637940, 638073, 638206, 638339, 638472, 638605,
    638738, 638871, 639003, 639136, 639269, 639402, 639534, 639667, 639800, 639932,
    640065, 640198, 640330, 640463, 640595, 640728, 640860, 640993, 641125, 641258,
    641390, 641523, 641655, 641787, 641920, 642052, 642184, 642316, 642449, 642581,
    642713, 642845, 642977, 643110, 643242, 643374, 643506, 643638, 643770, 643902,
    644034, 644166, 644298, 644430, 644562, 644693, 644825, 644957, 645089, 645221,
    645352, 645484, 645616, 645748, 645879, 646011, 646143, 646274, 646406, 646537,
    646669, 646800, 646932, 647063, 647195, 647326, 647458, 647589, 647720, 647852,
    647983, 648114, 648246, 648377, 648508, 648639, 648770, 648902, 649033, 649164,
    649295, 649426, 649557, 649688, 649819, 649950, 650081, 650212, 650343, 650474,
    650605, 650735, 650866, 650997, 651128, 651259, 651389, 651520, 651651, 651781,
    651912, 652043, 652173, 652304, 652434, 652565, 652695, 652826, 652956, 653087,
    653217, 653348, 653478, 653608, 653739, 653869, 653999, 654129, 654260, 654390,
    654520, 654650, 654780, 654910, 655040, 655171, 655301, 655431, 655561, 655691,
    655821, 655950, 656080, 656210, 656340, 656470, 656600, 656729, 656859, 656989,
    657119, 657248, 657378, 657508, 657637, 657767, 657896, 658026, 658156, 658285,
    658415, 658544, 658673, 658803, 658932, 659062, 659191, 659320, 659449, 659579,
    659708, 659837, 659966, 660096, 660225, 660354, 660483, 660612, 660741, 660870,
    660999, 661128, 661257, 661386, 661515, 661644, 661773, 661901, 662030, 662159,
    662288, 662417, 662545, 662674, 662803, 662931, 663060, 663188, 663317, 663446,
    663574, 663703, 663831, 663960, 664088, 664216, 664345, 664473, 664601, 664730,
    664858, 664986, 665114, 665243, 665371, 665499, 665627, 665755, 665883, 666011,
    666139, 666267, 666395, 666523, 666651, 666779, 666907, 667035, 667163, 667291,
    667418, 667546, 667674, 667802, 667929, 668057, 668185, 668312, 668440, 668567,
    668695, 668822, 668950, 669077, 669205, 669332, 669460, 669587, 669714, 669842,
    669969, 670096, 670224, 670351, 670478, 670605, 670732, 670859, 670986, 671114,
    671241, 671368, 671495, 671622, 671749, 671875, 672002, 672129, 672256, 672383,
    672510, 672636, 672763, 672890, 673017, 673143, 673270, 673396, 673523, 673650,
    673776, 673903, 674029, 674156, 674282, 674409, 674535, 674661, 674788, 674914,
    675040, 675166, 675293, 675419, 675545, 675671, 675797, 675923, 676050, 676176,
    676302, 676428, 676554, 676680, 676806, 676931, 677057, 677183, 677309, 677435,
    677561, 677686, 677812, 677938, 678063, 678189, 678315, 678440, 678566, 678691,
    678817, 678942, 679068, 679193, 679319, 679444, 679569, 679695, 679820, 679945,
    680071, 680196, 680321, 680446, 680571, 680697, 680822, 680947, 681072, 681197,
    681322, 681447, 681572, 681697, 681822, 681946, 682071, 682196, 682321, 682446,
    682570, 682695, 682820, 682944, 683069, 683194, 683318, 683443, 683567, 683692,
    683816, 683941, 684065, 684190, 684314, 684438, 684563, 684687, 684811, 684935,
    685060, 685184, 685308, 685432, 685556, 685680, 685804, 685928, 686052, 686176,
    686300, 686424, 686548, 686672, 686796, 686920, 687043, 687167, 687291, 687415,
    687538, 687662, 687786, 687909, 688033, 688156, 688280, 688403, 688527, 688650,
    688774, 688897, 689020, 689144, 689267, 689390, 689513, 689637, 689760, 689883,
    690006, 690129, 690252, 690375, 690499, 690622, 690744, 690867, 690990, 691113,
    691236, 691359, 691482, 691605, 691727, 691850, 691973, 692096, 692218, 692341,
    692463, 692586, 692709, 692831, 692954, 693076, 693198, 693321, 693443, 693566,
    693688, 693810, 693932, 694055, 694177, 694299, 694421, 694543, 694666, 694788,
    694910, 695032, 695154, 695276, 695398, 695520, 695641, 695763, 695885, 696007,
    696129, 696251, 696372, 696494, 696616, 696737, 696859, 696980, 697102, 697224,
    697345, 697467, 697588, 697709, 697831, 697952, 698074, 698195, 698316, 698437,
    698559, 698680, 698801, 698922, 699043, 699164, 699285, 699406, 699527, 699648,
    699769, 699890, 700011, 700132, 700253, 700374, 700495, 700615, 700736, 700857,
    700977, 701098, 701219, 701339, 701460, 701580, 701701, 701821, 701942, 702062,
    702183, 702303, 702423, 702544, 702664, 702784, 702904, 703025, 703145, 703265,
    703385, 703505, 703625, 703745, 703865, 703985, 704105, 704225, 704345, 704465,
    704585, 704704, 704824, 704944, 705064, 705183, 705303, 705423, 705542, 705662,
    705781, 705901, 706020, 706140, 706259, 706379, 706498, 706617, 706737, 706856,
    706975, 707095, 707214, 707333, 707452, 707571, 707690, 707809, 707928, 708047,
    708166, 708285, 708404, 708523, 708642, 708761, 708880, 708998, 709117, 709236,
    709355, 709473, 709592, 709711, 709829, 709948, 710066, 710185, 710303, 710422,
    710540, 710658, 710777, 710895, 711013, 711132, 711250, 711368, 711486, 711604,
    711723, 711841, 711959, 712077, 712195, 712313, 712431, 712549, 712666, 712784,
    712902, 713020, 713138, 713255, 713373, 713491, 713609, 713726, 713844, 713961,
    714079, 714196, 714314, 714431, 714549, 714666, 714784, 714901, 715018, 715135,
    715253
  >>

\* num / den rounded to the nearest integer, an exact half going to the even one.
RoundHalfEven(num, den) ==
  LET q == num \div den
      r == num % den
  IN IF 2 * r > den \/ (2 * r = den /\ q % 2 = 1) THEN q + 1 ELSE q

expected_score(rating_a, rating_b) ==
  LET d == rating_a - rating_b
  IN IF d >= 0 THEN ExpectedTable[d + 1] ELSE One - ExpectedTable[1 - d]

k_factor_old_only(matches) == K_FACTOR_OLD

k_factor_stale(matches) == IF matches + 1 < 20 THEN K_FACTOR_NEW ELSE K_FACTOR_OLD

k_factor(matches) == IF matches < 20 THEN K_FACTOR_NEW ELSE K_FACTOR_OLD

ActualScoresLoserHalf(winner) ==
  IF winner = "a" THEN <<One, One \div 2>>
  ELSE IF winner = "b" THEN <<One \div 2, One>>
  ELSE <<One \div 2, One \div 2>>

ActualScoresDrawOneSided(winner) ==
  IF winner = "a" THEN <<One, 0>>
  ELSE IF winner = "b" THEN <<0, One>>
  ELSE <<One \div 2, 0>>

\* sa, sb of update_elo.
ActualScores(winner) ==
  IF winner = "a" THEN <<One, 0>>
  ELSE IF winner = "b" THEN <<0, One>>
  ELSE <<One \div 2, One \div 2>>

\* round(elo + k * (s - e), 1)
NewElo(elo, k, s, e) == elo + RoundHalfEven(k * (s - e), EloQuantum)

RememberDropNewest(poem, opp) ==
  LET all == <<opp.id>> \o poem.recent_opponents
  IN IF Len(all) > RECENT_OPPONENT_MEMORY THEN SubSeq(all, 2, Len(all)) ELSE all

\* ([opp["id"]] + poem.get("recent_opponents", []))[:RECENT_OPPONENT_MEMORY]
Remember(poem, opp) ==
  Take(<<opp.id>> \o poem.recent_opponents, RECENT_OPPONENT_MEMORY)

TallyDrawAsLoss(poem, s) ==
  [poem EXCEPT !.matches = @ + 1,
               !.wins = IF s = One THEN @ + 1 ELSE @,
               !.losses = IF s # One THEN @ + 1 ELSE @]

TallyIfNotElif(poem, s) ==
  [poem EXCEPT !.matches = @ + 1,
               !.wins = IF s = One THEN @ + 1 ELSE @,
               !.losses = IF s = 0 THEN @ + 1 ELSE @,
               !.draws = IF s # 0 THEN @ + 1 ELSE @]

TallyWinOnly(poem, s) ==
  [poem EXCEPT !.matches = @ + 1,
               !.wins = IF s = One THEN @ + 1 ELSE @,
               !.draws = IF s # One /\ s # 0 THEN @ + 1 ELSE @]

\* The counters of one side: the body of the for loop of update_elo.
Tally(poem, s) ==
  [poem EXCEPT !.matches = @ + 1,
               !.wins = IF s = One THEN @ + 1 ELSE @,
               !.losses = IF s = 0 THEN @ + 1 ELSE @,
               !.draws = IF s # One /\ s # 0 THEN @ + 1 ELSE @]

\* update_elo: the two poems after the match, <<poem_a, poem_b>>.
update_elo(poem_a, poem_b, winner) ==
  LET ea == expected_score(poem_a.elo, poem_b.elo)
      eb == One - ea
      sa == ActualScores(winner)[1]
      sb == ActualScores(winner)[2]
      ka == k_factor(poem_a.matches)
      kb == k_factor(poem_b.matches)
      elo_a == NewElo(poem_a.elo, ka, sa, ea)
      elo_b == NewElo(poem_b.elo, kb, sb, eb)
  IN << [Tally(poem_a, sa) EXCEPT !.elo = elo_a,
                                  !.recent_opponents = Remember(poem_a, poem_b)],
        [Tally(poem_b, sb) EXCEPT !.elo = elo_b,
                                  !.recent_opponents = Remember(poem_b, poem_a)] >>

(***************************************************************************)
(* Rolling dimension averages.                                             *)
(***************************************************************************)
\* The <<previous average, score>> pairs of one update whose exact quotient lies
\* midway between two hundredths: there the binary double decides which of the
\* two round(x, 2) gives.
TieCases(poem, scores) ==
  {<<poem.dim_averages[d], scores[d]>> :
     d \in {x \in Dims \cap DOMAIN scores :
              /\ poem.dim_averages[x] # None
              /\ 2 * ((poem.dim_averages[x] * (poem.matches - 1) + scores[x])
                        % poem.matches) = poem.matches}}

\* round(x, 2) of x = num / den hundredths; up says where an exact half goes.
Round2(num, den, up) ==
  LET q == num \div den
      r == num % den
  IN IF 2 * r > den \/ (2 * r = den /\ up) THEN q + 1 ELSE q

RollingStalePrev(prev, cnt, val, up) ==
  IF prev = None THEN val ELSE Round2(prev * cnt + val, cnt + 1, up)

\* round(val if prev is None else (prev * (n - 1) + val) / n, 2)
Rolling(prev, cnt, val, up) ==
  IF prev = None THEN val ELSE Round2(prev * (cnt - 1) + val, cnt, up)

\* update_dim_averages; ups: the tie cases that round up.
update_dim_averages(poem, scores, ups) ==
  [poem EXCEPT !.dim_averages =
     [d \in Dims |->
        IF d \in DOMAIN scores
        THEN Rolling(poem.dim_averages[d], poem.matches, scores[d],
                     <<poem.dim_averages[d], scores[d]>> \in ups)
        ELSE poem.dim_averages[d]]]

(***************************************************************************)
(* Verdicts: what judge_pair returns on success.                           *)
(***************************************************************************)
Uniform(v) == [d \in Dims |-> v * Score]

Mixed ==
  [d \in Dims |-> IF d = "cut" THEN 5 * Score
                  ELSE IF d = "economy" THEN Score
                  ELSE 7 * (Score \div 2)]

RECURSIVE SumOver(_, _)
SumOver(f, S) ==
  IF S = {} THEN 0
  ELSE LET x == CHOOSE y \in S : TRUE IN f[x] + SumOver(f, S \ {x})

\* result[side]["total"] = sum of the six dimensions (judge_pair).
WithTotal(scores) ==
  [d \in Dims \cup {"total"} |-> IF d = "total" THEN SumOver(scores, Dims) ELSE scores[d]]

Verdict(sa, sb, winner, reasoning) ==
  [a |-> WithTotal(sa), b |-> WithTotal(sb), winner |-> winner, reasoning |-> reasoning]

Winners == {"a", "b", "draw"}

Verdicts ==
  {Verdict(Uniform(3), Uniform(3), w, "x") : w \in Winners}
    \cup {Verdict(Mixed, Uniform(4), w, "y") : w \in Winners}

\* The verdicts the oracle gives in the runs of main(): one for each winner.
OracleVerdicts ==
  {Verdict(Uniform(3), Uniform(3), "a", "x"),
   Verdict(Mixed, Uniform(4), "b", "y"),
   Verdict(Uniform(3), Uniform(3), "draw", "x")}

(***************************************************************************)
(* Responses: what parse_judge_response makes of the oracle's text.  A     *)
(* JSON value is a record of its Python type and, for a number, its value  *)
(* in hundredths; a side is an object of such values or something else.    *)
(***************************************************************************)
Json(v) == [kind |-> IF v % Score = 0 THEN "int" ELSE "float", v |-> v]
JsonTrue == [kind |-> "bool", v |-> Score]      \* true: Python's True == 1
JsonString == [kind |-> "str", v |-> 0]         \* "3"
JsonNull == [kind |-> "null", v |-> 0]          \* null, and .get() of no key

Obj(fields) == [object |-> TRUE, fields |-> fields]
NotAnObject == [object |-> FALSE, fields |-> [d \in {} |-> JsonNull]]

Side(scores) == Obj([d \in Dims |-> Json(scores[d])])

\* The same side with dimension `dim` holding `val`.
SideWith(scores, dim, val) ==
  Obj([d \in Dims |-> IF d = dim THEN val ELSE Json(scores[d])])

\* The same side without the key `dim`.
SideWithout(scores, dim) == Obj([d \in Dims \ {dim} |-> Json(scores[d])])

Response(a, b, winner, reasoning) ==
  [parsed |-> TRUE, a |-> a, b |-> b, winner |-> winner, reasoning |-> reasoning]

\* parse_judge_response returned None: no JSON in the text.
Unparsed == [parsed |-> FALSE]

\* No oracle call has given a response.
NoResponse == [parsed |-> FALSE, none |-> TRUE]

\* The responses judge_pair accepts in the runs of main(): those that become
\* the OracleVerdicts.
OracleResponses ==
  {Response(Side(Uniform(3)), Side(Uniform(3)), "a", "x"),
   Response(Side(Mixed), Side(Uniform(4)), "b", "y"),
   Response(Side(Uniform(3)), Side(Uniform(3)), "draw", "x")}

ValueSix == Response(SideWith(Uniform(3), "cut", Json(6 * Score)), Side(Uniform(3)), "a", "x")
ValueZero == Response(Side(Uniform(3)), SideWith(Uniform(3), "economy", Json(0)), "b", "x")
ValueString == Response(SideWith(Uniform(3), "cut", JsonString), Side(Uniform(3)), "a", "x")
ValueNull == Response(Side(Uniform(3)), SideWith(Uniform(3), "cut", JsonNull), "a", "x")
ValueTrue == Response(SideWith(Uniform(3), "cut", JsonTrue), Side(Uniform(3)), "draw", "x")
MissingDim == Response(SideWithout(Uniform(3), "musicality"), Side(Uniform(3)), "a", "x")
WinnerC == Response(Side(Uniform(3)), Side(Uniform(3)), "c", "x")
MissingSide == [parsed |-> TRUE, a |-> Side(Uniform(3)), winner |-> "a", reasoning |-> "x"]
MissingWinner == [parsed |-> TRUE, a |-> Side(Uniform(3)), b |-> Side(Uniform(3)), reasoning |-> "x"]
MissingReasoning == [parsed |-> TRUE, a |-> Side(Uniform(4)), b |-> Side(Uniform(3)), winner |-> "a"]
SideNotObject == Response(NotAnObject, Side(Uniform(3)), "a", "x")
EmptyObject == [parsed |-> TRUE]

Responses ==
  OracleResponses \cup
    {ValueSix, ValueZero, ValueString, ValueNull, ValueTrue, MissingDim, WinnerC,
     MissingSide, MissingWinner, MissingReasoning, SideNotObject, EmptyObject,
     Unparsed}

\* The responses of the runs of main(): the accepted ones and a rejected one.
SessionResponses == OracleResponses \cup {ValueSix}

\* data[side].get(dim)
Get(side, dim) == IF dim \in DOMAIN side.fields THEN side.fields[dim] ELSE JsonNull

\* isinstance(val, (int, float)) and 1 <= val <= 5; bool is a subclass of int.
ScoreOk(val) ==
  /\ val.kind \in {"int", "float", "bool"}
  /\ Score <= val.v /\ val.v <= 5 * Score

\* validate_scores, one pass of its loop over the sides: "false" for return
\* False, "raise" for the AttributeError of .get on what is not a dict.
CheckSide(data, side) ==
  IF side \notin DOMAIN data THEN "false"
  ELSE IF ~data[side].object THEN "raise"
  ELSE IF \A dim \in Dims : ScoreOk(Get(data[side], dim)) THEN "ok"
  ELSE "false"

\* data.get("winner") in ("a", "b", "draw")
WinnerOk(data) == "winner" \in DOMAIN data /\ data.winner \in Winners

validate_scores(data) ==
  LET a == CheckSide(data, "a")
      b == CheckSide(data, "b")
  IN IF a # "ok" THEN a
     ELSE IF b # "ok" THEN b
     ELSE IF WinnerOk(data) THEN "true"
     ELSE "false"

\* `result and validate_scores(result)`: None and {} are falsy.
Falsy(data) == ~data.parsed \/ DOMAIN data = {"parsed"}

\* One attempt of judge_pair on a response: "valid", "invalid" or "raise".
Outcome(data) ==
  IF Falsy(data) THEN "invalid"
  ELSE LET ok == validate_scores(data)
       IN IF ok = "true" THEN "valid"
          ELSE IF ok = "raise" THEN "raise"
          ELSE "invalid"

\* The Python values of a side's six dimensions.
Values(side) == [d \in Dims |-> side.fields[d].v]

\* What judge_pair returns for a valid response: the parsed object with each
\* side's total added.
Returned(data) ==
  [f \in DOMAIN data \ {"parsed"} |->
     IF f \in {"a", "b"} THEN WithTotal(Values(data[f])) ELSE data[f]]

(***************************************************************************)
(* One judged pair applied to the store: main, after judge_pair succeeded. *)
(***************************************************************************)
Reasoning(result) == IF "reasoning" \in DOMAIN result THEN result.reasoning ELSE ""

ApplyVerdict(ps, ia, ib, result, upsA, upsB) ==
  LET upd == update_elo(ps[ia], ps[ib], result.winner)
      a2 == update_dim_averages(upd[1], result.a, upsA)
      b2 == update_dim_averages(upd[2], result.b, upsB)
  IN [ps EXCEPT ![ia] = [a2 EXCEPT !.last_reasoning = Reasoning(result)],
                ![ib] = [b2 EXCEPT !.last_reasoning = Reasoning(result)]]

\* The ways the ties of one application can fall.
TiesA(ps, ia, ib, result) == TieCases(update_elo(ps[ia], ps[ib], result.winner)[1], result.a)
TiesB(ps, ia, ib, result) == TieCases(update_elo(ps[ia], ps[ib], result.winner)[2], result.b)

\* What the history keeps of one applied match: the pair, the verdict, and the
\* ratings and match counts the update read.
LogEntry(ps, ia, ib, result) ==
  [a |-> ps[ia].id, b |-> ps[ib].id, result |-> result,
   elo_a |-> ps[ia].elo, elo_b |-> ps[ib].elo,
   matches_a |-> ps[ia].matches, matches_b |-> ps[ib].matches]

IndexOf(ps, id) == CHOOSE j \in 1..Len(ps) : ps[j].id = id

(***************************************************************************)
(* SpecElo: the update applied to a store of three poems (the two of a     *)
(* match and a bystander), any pair, any verdict.  Its initial corpora are *)
(* a fresh one and corpora that earlier drawn matches (every score 3)      *)
(* have left, computed by the update itself.                               *)
(***************************************************************************)
DrawnThree == Verdict(Uniform(3), Uniform(3), "draw", "x")

\* The store and history after `rounds` drawn matches of poem 1, against poem 2
\* each time or (alternate) against poems 2 and 3 in turn.
RECURSIVE Played(_, _, _)
Played(size, rounds, alternate) ==
  IF rounds = 0 THEN [poems |-> FreshCorpus(size), log |-> <<>>]
  ELSE LET before == Played(size, rounds - 1, alternate)
           ib == IF alternate /\ rounds % 2 = 0 THEN 3 ELSE 2
       IN [poems |-> ApplyVerdict(before.poems, 1, ib, DrawnThree, {}, {}),
           log |-> Append(before.log, LogEntry(before.poems, 1, ib, DrawnThree))]

EloHistories == {<<0, FALSE>>, <<9, TRUE>>, <<19, TRUE>>, <<20, FALSE>>}

(***************************************************************************)
(* The text of the corpus file: json.dumps writes the list of poems as an  *)
(* array of objects, a number by its decimal digits, None as null, and     *)
(* json.loads reads the text back.                                         *)
(***************************************************************************)
\* The text of a number of `unit` parts to the whole: the digits before the
\* point and those after it.
JsonNumber(v, unit) == [kind |-> "number", whole |-> v \div unit, frac |-> v % unit]

JsonText(s) == [kind |-> "string", text |-> s]

\* json.dumps of one poem (the dict keeps its key order).
DumpPoem(p) ==
  [id |-> JsonText(p.id), source |-> JsonText(p.source),
   elo |-> JsonNumber(p.elo, 10),
   matches |-> JsonNumber(p.matches, 1), wins |-> JsonNumber(p.wins, 1),
   losses |-> JsonNumber(p.losses, 1), draws |-> JsonNumber(p.draws, 1),
   dim_averages |->
     [d \in Dims |-> IF p.dim_averages[d] = None THEN JsonNull
                     ELSE JsonNumber(p.dim_averages[d], Score)],
   last_reasoning |->
     IF p.last_reasoning = NoReasoning THEN JsonNull ELSE JsonText(p.last_reasoning),
   recent_opponents |->
     [k \in 1..Len(p.recent_opponents) |-> JsonText(p.recent_opponents[k])]]

\* json.dumps(poems, indent=2, ensure_ascii=False)
json_dumps(ps) == [j \in 1..Len(ps) |-> DumpPoem(ps[j])]

LoadNumberNullAsZero(tok, unit) == IF tok.kind = "null" THEN 0 ELSE tok.whole * unit + tok.frac

\* The Python value of a number or null, and of a string or null.
LoadNumber(tok, unit) == IF tok.kind = "null" THEN None ELSE tok.whole * unit + tok.frac
LoadText(tok) == IF tok.kind = "null" THEN NoReasoning ELSE tok.text

LoadPoem(o) ==
  [id |-> LoadText(o.id), source |-> LoadText(o.source),
   elo |-> LoadNumber(o.elo, 10),
   matches |-> LoadNumber(o.matches, 1), wins |-> LoadNumber(o.wins, 1),
   losses |-> LoadNumber(o.losses, 1), draws |-> LoadNumber(o.draws, 1),
   dim_averages |-> [d \in Dims |-> LoadNumber(o.dim_averages[d], Score)],
   last_reasoning |-> LoadText(o.last_reasoning),
   recent_opponents |->
     [k \in 1..Len(o.recent_opponents) |-> LoadText(o.recent_opponents[k])]]

\* json.loads(CORPUS_PATH.read_text())
json_loads(text) == [j \in 1..Len(text) |-> LoadPoem(text[j])]

NoFile == [exists |-> FALSE, whole |-> FALSE, content |-> <<>>]

\* A file that holds a whole text.
File(content) == [exists |-> TRUE, whole |-> TRUE, content |-> content]

\* A file opened for writing whose text has not been written to its end: empty
\* or a proper prefix of the JSON text, which json.loads rejects in every case.
TornFile == [exists |-> TRUE, whole |-> FALSE, content |-> <<>>]

ZeroStats == [wins_a |-> 0, wins_b |-> 0, draws |-> 0, errors |-> 0]

InitElo ==
  /\ \E h \in EloHistories :
       /\ poems = Played(3, h[1], h[2]).poems
       /\ log = Played(3, h[1], h[2]).log
  /\ disk = NoFile /\ ratings = NoFile
  /\ pc = "update"
  /\ n = 0 /\ pairs = <<>> /\ attempts = 0 /\ warned = FALSE
  /\ i = 1 /\ attempt = 0 /\ sleeps = 0 /\ stats = ZeroStats
  /\ response = NoResponse
  /\ applied = 0 /\ sessions = 0 /\ requested = 0

\* update_elo, update_dim_averages for both sides and last_reasoning, as main
\* applies them to one judged pair.
EloApply(ia, ib, result) ==
  /\ pc = "update"
  /\ applied < MaxApplied
  /\ ia # ib
  /\ \E upsA \in SUBSET TiesA(poems, ia, ib, result),
        upsB \in SUBSET TiesB(poems, ia, ib, result) :
       poems' = ApplyVerdict(poems, ia, ib, result, upsA, upsB)
  /\ log' = Append(log, LogEntry(poems, ia, ib, result))
  /\ applied' = applied + 1
  /\ UNCHANGED <<disk, ratings, pc, n, pairs, attempts, warned, i, attempt,
                 sleeps, response, stats, sessions, requested>>

NextElo ==
  \E ia \in 1..Len(poems), ib \in 1..Len(poems), result \in Verdicts :
     EloApply(ia, ib, result)

SpecElo == InitElo /\ [][NextElo]_vars

(***************************************************************************)
(* Pair selection.                                                         *)
(***************************************************************************)
RECURSIVE MaxMatches(_)
\* max(p["matches"] for p in poems) if poems else 0
MaxMatches(ps) ==
  IF Len(ps) = 0 THEN 0
  ELSE LET rest == MaxMatches(SubSeq(ps, 2, Len(ps)))
       IN IF ps[1].matches >= rest THEN ps[1].matches ELSE rest

\* weights = [max_matches - p["matches"] + 1 for p in poems]
Weights(ps) == [j \in 1..Len(ps) |-> MaxMatches(ps) - ps[j].matches + 1]

RecentlyMatchedNever(a, b) == FALSE

\* b["id"] in a.get("recent_opponents", [])
RecentlyMatched(a, b) == InSeq(b.id, a.recent_opponents)

\* The condition of the while loop of select_pairs.
Selecting == Len(pairs) < n /\ attempts < n * 20

(***************************************************************************)
(* The summary written for the website.                                    *)
(***************************************************************************)
RECURSIVE SumField(_, _, _)
\* sum(p[field] for p in ps if p["source"] in sources)
SumField(ps, field, sources) ==
  IF Len(ps) = 0 THEN 0
  ELSE (IF ps[1].source \in sources THEN ps[1][field] ELSE 0)
         + SumField(SubSeq(ps, 2, Len(ps)), field, sources)

TopCount == 10           \* [:10] of top_ai and top_human

TotalMatchesBothSides(ps) == SumField(ps, "matches", {"ai", "human"})

\* sum(p["matches"] for p in poems) // 2
TotalMatches(ps) == SumField(ps, "matches", {"ai", "human"}) \div 2

\* sum(p["draws"] for p in poems) // 2
TotalDraws(ps) == SumField(ps, "draws", {"ai", "human"}) \div 2

\* [p for p in poems if p["source"] == source]
OfSource(ps, source) == SelectSeq(ps, LAMBDA p : p.source = source)

\* Where sorted(..., key=elo, reverse=True) puts the poem at index j: after the
\* poems of a higher rating and, the sort being stable, after those of the same
\* rating that stand before it.
Rank(ps, j) ==
  1 + Cardinality({k \in 1..Len(ps) :
                     \/ ps[k].elo > ps[j].elo
                     \/ ps[k].elo = ps[j].elo /\ k < j})

Unsorted(ps) == ps

\* sorted(ps, key=lambda p: p["elo"], reverse=True): a new list.
SortedByElo(ps) ==
  [r \in 1..Len(ps) |-> ps[CHOOSE j \in 1..Len(ps) : Rank(ps, j) = r]]

\* An entry of top_ai and top_human (of the texts, which no match changes, the
\* id only).
TopEntry(p) == [id |-> p.id, elo |-> p.elo, matches |-> p.matches, wins |-> p.wins]

\* An entry of the leaderboard "poems".
BoardEntry(p) ==
  [id |-> p.id, source |-> p.source, elo |-> p.elo, matches |-> p.matches,
   wins |-> p.wins, losses |-> p.losses, draws |-> p.draws,
   dim_averages |-> p.dim_averages, last_reasoning |-> p.last_reasoning]

TopEntries(ps) == [r \in 1..Len(ps) |-> TopEntry(ps[r])]

BoardEntries(ps) == [r \in 1..Len(ps) |-> BoardEntry(ps[r])]

\* The summary without generated_at and the two average ratings.
build_ratings_json(ps) ==
  [total_matches |-> TotalMatches(ps),
   ai_count |-> Len(OfSource(ps, "ai")),
   human_count |-> Len(OfSource(ps, "human")),
   ai_wins |-> SumField(ps, "wins", {"ai"}),
   human_wins |-> SumField(ps, "wins", {"human"}),
   draws |-> TotalDraws(ps),
   top_ai |-> TopEntries(Take(SortedByElo(OfSource(ps, "ai")), TopCount)),
   top_human |-> TopEntries(Take(SortedByElo(OfSource(ps, "human")), TopCount)),
   poems |-> BoardEntries(SortedByElo(ps))]

(***************************************************************************)
(* Spec: runs of main() over the corpus file.  The oracle of these runs     *)
(* answers every call, with a response judge_pair accepts or with one it   *)
(* rejects; calls that raise are part of SpecJudge, runs that are cut      *)
(* short part of SpecCrash.                                                *)
(***************************************************************************)
\* The corpora a first run finds: none, an empty one, and fresh ones of one,
\* two and three poems.
CorpusSizes == 0..3

Init ==
  /\ disk \in {NoFile} \cup {File(json_dumps(FreshCorpus(size))) : size \in CorpusSizes}
  /\ ratings = NoFile
  /\ pc = "idle"
  /\ poems = <<>>
  /\ n = 0 /\ pairs = <<>> /\ attempts = 0 /\ warned = FALSE
  /\ i = 1 /\ attempt = 0 /\ sleeps = 0 /\ stats = ZeroStats
  /\ response = NoResponse
  /\ log = <<>> /\ applied = 0 /\ sessions = 0 /\ requested = 0

\* A run of main() can start when no run is in progress.
Stopped == pc \in {"idle", "done", "aborted", "unreadable", "crashed", "killed"}

CorpusMissingStillWrites ==
  /\ Stopped /\ sessions < MaxSessions
  /\ ~disk.exists
  /\ pc' = "aborted"
  /\ sessions' = sessions + 1
  /\ ratings' = File(build_ratings_json(poems))
  /\ UNCHANGED <<disk, poems, n, pairs, attempts, warned, i, attempt,
                 sleeps, response, stats, log, applied, requested>>

\* main: the corpus file does not exist, SystemExit.
CorpusMissing ==
  /\ Stopped /\ sessions < MaxSessions
  /\ ~disk.exists
  /\ pc' = "aborted"
  /\ sessions' = sessions + 1
  /\ UNCHANGED <<disk, ratings, poems, n, pairs, attempts, warned, i, attempt,
                 sleeps, response, stats, log, applied, requested>>

\* main: json.loads raises JSONDecodeError on a corpus file that does not hold
\* a whole JSON text; nothing catches it and the run ends with a traceback.
CorpusUnreadable ==
  /\ Stopped /\ sessions < MaxSessions
  /\ disk.exists /\ ~disk.whole
  /\ pc' = "unreadable"
  /\ sessions' = sessions + 1
  /\ UNCHANGED <<disk, ratings, poems, n, pairs, attempts, warned, i, attempt,
                 sleeps, response, stats, log, applied, requested>>

\* main: the corpus is read and select_pairs is entered with args.pairs = k.
Load(k) ==
  /\ Stopped /\ sessions < MaxSessions
  /\ disk.exists /\ disk.whole
  /\ requested + k <= MaxRequested
  /\ poems' = json_loads(disk.content)
  /\ n' = k /\ pairs' = <<>> /\ attempts' = 0 /\ warned' = FALSE
  /\ i' = 1 /\ attempt' = 0 /\ sleeps' = 0 /\ stats' = ZeroStats
  /\ response' = NoResponse
  /\ pc' = "select"
  /\ sessions' = sessions + 1
  /\ requested' = requested + k
  /\ UNCHANGED <<disk, ratings, log, applied>>

\* select_pairs: one pass of the while loop, random.choices drawing (ia, ib);
\* when the loop condition then fails, the warning and the return, after which
\* main is at the head of its for loop.
SelectDraw(ia, ib) ==
  /\ pc = "select" /\ Selecting
  /\ Weights(poems)[ia] > 0 /\ Weights(poems)[ib] > 0
  /\ LET chosen == IF ia = ib \/ RecentlyMatched(poems[ia], poems[ib])
                   THEN pairs
                   ELSE Append(pairs, <<ia, ib>>)
     IN /\ pairs' = chosen
        /\ IF Len(chosen) < n /\ attempts + 1 < n * 20
           THEN attempts' = attempts + 1 /\ pc' = pc /\ warned' = warned
           ELSE attempts' = 0 /\ pc' = "loop" /\ warned' = (Len(chosen) < n)
  /\ UNCHANGED <<disk, ratings, poems, n, i, attempt, sleeps, response, stats,
                 log, applied, sessions, requested>>

\* select_pairs: random.choices on an empty population raises IndexError, which
\* nothing catches: the run ends with a traceback.
SelectRaise ==
  /\ pc = "select" /\ Selecting
  /\ Len(poems) = 0
  /\ attempts' = attempts + 1
  /\ pc' = "crashed"
  /\ UNCHANGED <<disk, ratings, poems, n, pairs, warned, i, attempt, sleeps,
                 response, stats, log, applied, sessions, requested>>

\* select_pairs returns without a pass of its loop (n = 0); main sets its
\* tallies to 0 and enters the for loop.
SelectReturn ==
  /\ pc = "select" /\ ~Selecting
  /\ warned' = (Len(pairs) < n)
  /\ attempts' = 0
  /\ stats' = ZeroStats
  /\ i' = 1 /\ attempt' = 0 /\ sleeps' = 0
  /\ pc' = "loop"
  /\ UNCHANGED <<disk, ratings, poems, n, pairs, response, log, applied, sessions,
                 requested>>

Judging == pc = "loop" /\ i <= Len(pairs)

\* judge_pair: the call raises (URLError, a timeout, any other exception)
\* before it gives a text; the except branch sleeps 2 s.
JudgeRaise ==
  /\ Judging /\ attempt < 3
  /\ attempt' = attempt + 1
  /\ sleeps' = sleeps + 1
  /\ response' = NoResponse
  /\ UNCHANGED <<disk, ratings, pc, poems, n, pairs, attempts, warned, i, stats,
                 log, applied, sessions, requested>>

\* judge_pair: the response does not parse or does not validate: the else
\* branch prints and the loop goes on; when validate_scores raises, the except
\* branch prints and sleeps 2 s.
JudgeInvalid(resp) ==
  /\ Judging /\ attempt < 3
  /\ LET outcome == Outcome(resp)
     IN /\ outcome # "valid"
        /\ sleeps' = IF outcome = "raise" THEN sleeps + 1 ELSE sleeps
  /\ attempt' = attempt + 1
  /\ response' = resp
  /\ UNCHANGED <<disk, ratings, pc, poems, n, pairs, attempts, warned, i, stats,
                 log, applied, sessions, requested>>

Tallied(st, winner) ==
  IF winner = "a" THEN [st EXCEPT !.wins_a = @ + 1]
  ELSE IF winner = "b" THEN [st EXCEPT !.wins_b = @ + 1]
  ELSE [st EXCEPT !.draws = @ + 1]

JudgeVerdictFromStart(resp) ==
  /\ Judging /\ attempt < 3
  /\ Outcome(resp) = "valid"
  /\ LET ia == pairs[i][1]
         ib == pairs[i][2]
         result == Returned(resp)
         start == json_loads(disk.content)
     IN /\ \E upsA \in SUBSET TiesA(start, ia, ib, result),
              upsB \in SUBSET TiesB(start, ia, ib, result) :
             poems' = [poems EXCEPT
                         ![ia] = ApplyVerdict(start, ia, ib, result, upsA, upsB)[ia],
                         ![ib] = ApplyVerdict(start, ia, ib, result, upsA, upsB)[ib]]
        /\ log' = Append(log, LogEntry(poems, ia, ib, result))
        /\ stats' = Tallied(stats, result.winner)
  /\ applied' = applied + 1
  /\ response' = resp
  /\ i' = i + 1 /\ attempt' = 0 /\ sleeps' = 0
  /\ UNCHANGED <<disk, ratings, pc, n, pairs, attempts, warned, sessions, requested>>

\* judge_pair: the response parses and validates and is returned with its
\* totals; main applies it and goes to the next pair.
JudgeVerdict(resp) ==
  /\ Judging /\ attempt < 3
  /\ Outcome(resp) = "valid"
  /\ LET ia == pairs[i][1]
         ib == pairs[i][2]
         result == Returned(resp)
     IN /\ \E upsA \in SUBSET TiesA(poems, ia, ib, result),
              upsB \in SUBSET TiesB(poems, ia, ib, result) :
             poems' = ApplyVerdict(poems, ia, ib, result, upsA, upsB)
        /\ log' = Append(log, LogEntry(poems, ia, ib, result))
        /\ stats' = Tallied(stats, result.winner)
  /\ applied' = applied + 1
  /\ response' = resp
  /\ i' = i + 1 /\ attempt' = 0 /\ sleeps' = 0
  /\ UNCHANGED <<disk, ratings, pc, n, pairs, attempts, warned, sessions, requested>>

SkippedUncounted(st) == st

\* The error count of main after a pair that judge_pair returned None for.
Skipped(st) == [st EXCEPT !.errors = @ + 1]

JudgeGiveUpEarly ==
  /\ Judging /\ attempt >= 2
  /\ stats' = Skipped(stats)
  /\ response' = NoResponse
  /\ i' = i + 1 /\ attempt' = 0 /\ sleeps' = 0
  /\ UNCHANGED <<disk, ratings, pc, poems, n, pairs, attempts, warned, log,
                 applied, sessions, requested>>

\* judge_pair returns None after the third failed attempt; main skips the pair.
JudgeGiveUp ==
  /\ Judging /\ attempt = 3
  /\ stats' = Skipped(stats)
  /\ response' = NoResponse
  /\ i' = i + 1 /\ attempt' = 0 /\ sleeps' = 0
  /\ UNCHANGED <<disk, ratings, pc, poems, n, pairs, attempts, warned, log,
                 applied, sessions, requested>>

SaveTruncateEarly ==
  /\ pc = "loop"
  /\ disk' = TornFile
  /\ pc' = "saving"
  /\ n' = 0 /\ pairs' = <<>> /\ warned' = FALSE /\ i' = 1
  /\ response' = NoResponse
  /\ UNCHANGED <<ratings, poems, attempts, attempt, sleeps, stats, log, applied,
                 sessions, requested>>

\* main: CORPUS_PATH.write_text after the loop opens the file for writing,
\* which empties it.  The variables of the selection and of the loop are not
\* read again; the tallies stay for the record of the run.
SaveTruncate ==
  /\ pc = "loop" /\ i > Len(pairs)
  /\ disk' = TornFile
  /\ pc' = "saving"
  /\ n' = 0 /\ pairs' = <<>> /\ warned' = FALSE /\ i' = 1
  /\ response' = NoResponse
  /\ UNCHANGED <<ratings, poems, attempts, attempt, sleeps, stats, log, applied,
                 sessions, requested>>

SaveCorpusUnlessErrors ==
  /\ pc = "saving"
  /\ disk' = File(json_dumps(IF stats.errors > 0 THEN FreshCorpus(Len(poems)) ELSE poems))
  /\ pc' = "saved"
  /\ UNCHANGED <<ratings, poems, n, pairs, attempts, warned, i, attempt, sleeps,
                 response, stats, log, applied, sessions, requested>>

\* main: CORPUS_PATH.write_text writes the text of the whole list and closes
\* the file.
SaveCorpus ==
  /\ pc = "saving"
  /\ disk' = File(json_dumps(poems))
  /\ pc' = "saved"
  /\ UNCHANGED <<ratings, poems, n, pairs, attempts, warned, i, attempt, sleeps,
                 response, stats, log, applied, sessions, requested>>

SaveRatingsSortingTheStore ==
  /\ pc = "saved"
  /\ ratings' = File(build_ratings_json(poems))
  /\ pc' = "done"
  /\ poems' = SortedByElo(poems)
  /\ stats' = ZeroStats
  /\ UNCHANGED <<disk, n, pairs, attempts, warned, i, attempt, sleeps, response,
                 log, applied, sessions, requested>>

\* main: build_ratings_json makes the summary out of new lists and new dicts,
\* the store stays as it is; OUTPUT_PATH.write_text writes the summary, a file
\* no run reads, and main returns.
SaveRatings ==
  /\ pc = "saved"
  /\ ratings' = File(build_ratings_json(poems))
  /\ pc' = "done"
  /\ stats' = ZeroStats
  /\ UNCHANGED <<disk, poems, n, pairs, attempts, warned, i, attempt, sleeps,
                 response, log, applied, sessions, requested>>

\* The matches the corpus file holds: the history without those applied in
\* memory only.
Persisted(file, lg) ==
  Take(lg, SumField(json_loads(file.content), "matches", {"ai", "human"}) \div 2)

\* The process of a running session ends where it stands (a signal, a power
\* cut, an exception nothing catches, such as one write_text raises): what it
\* held in memory is gone, the files stay as they are.
Crash ==
  /\ pc \in {"select", "loop", "saving", "saved"}
  /\ pc' = "killed"
  /\ poems' = <<>>
  /\ n' = 0 /\ pairs' = <<>> /\ attempts' = 0 /\ warned' = FALSE
  /\ i' = 1 /\ attempt' = 0 /\ sleeps' = 0 /\ stats' = ZeroStats
  /\ response' = NoResponse
  /\ LET kept == Persisted(disk, log)
     IN log' = kept /\ applied' = applied - (Len(log) - Len(kept))
  /\ UNCHANGED <<disk, ratings, sessions, requested>>

Next ==
  \/ CorpusMissing
  \/ \E k \in 0..MaxRequested : Load(k)
  \/ \E ia \in 1..Len(poems), ib \in 1..Len(poems) : SelectDraw(ia, ib)
  \/ SelectRaise
  \/ SelectReturn
  \/ \E resp \in SessionResponses : JudgeInvalid(resp)
  \/ \E resp \in SessionResponses : JudgeVerdict(resp)
  \/ JudgeGiveUp
  \/ SaveTruncate
  \/ SaveCorpus
  \/ SaveRatings

Spec == Init /\ [][Next]_vars

(***************************************************************************)
(* SpecCrash: the runs of main() over a corpus of at most two poems, where *)
(* the process can be killed at any point of a run.                        *)
(***************************************************************************)
InitCrash == Init /\ (disk.exists => Len(disk.content) <= 2)

NextCrash ==
  \/ Next
  \/ CorpusUnreadable
  \/ Crash

SpecCrash == InitCrash /\ [][NextCrash]_vars

(***************************************************************************)
(* SpecJudge: the for loop of main() over the pairs select_pairs returned  *)
(* for two fresh poems and --pairs 2, the oracle answering with any of     *)
(* Responses or failing, up to the two writes.                             *)
(***************************************************************************)
SelectedPairs == {<<<<1, 2>>, <<2, 1>>>>, <<<<2, 1>>, <<2, 1>>>>, <<<<1, 2>>>>}

InitJudge ==
  /\ disk = File(json_dumps(FreshCorpus(2)))
  /\ ratings = NoFile
  /\ pc = "loop"
  /\ poems = FreshCorpus(2)
  /\ n = 2 /\ pairs \in SelectedPairs
  /\ attempts = 0 /\ warned = (Len(pairs) < n)
  /\ i = 1 /\ attempt = 0 /\ sleeps = 0 /\ stats = ZeroStats
  /\ response = NoResponse
  /\ log = <<>> /\ applied = 0 /\ sessions = 1 /\ requested = 2

NextJudge ==
  \/ JudgeRaise
  \/ \E resp \in Responses : JudgeInvalid(resp)
  \/ \E resp \in Responses : JudgeVerdict(resp)
  \/ JudgeGiveUp
  \/ SaveTruncate
  \/ SaveCorpus
  \/ SaveRatings

SpecJudge == InitJudge /\ [][NextJudge]_vars

(***************************************************************************)
(* SpecSummary: the end of a session of at most one match over a corpus of *)
(* two human and eleven AI poems, more of one source than a top list       *)
(* holds: the corpus is written and the summary is built from the store.   *)
(***************************************************************************)
SummaryCorpus ==
  [j \in 1..(2 + Len(AiIds)) |->
     IF j <= 2 THEN FreshPoem(HumanIds[j], "human") ELSE FreshPoem(AiIds[j - 2], "ai")]

InitSummary ==
  /\ \/ /\ poems = SummaryCorpus
        /\ log = <<>> /\ applied = 0 /\ stats = ZeroStats
     \/ \E ia \in 1..Len(SummaryCorpus), ib \in 1..Len(SummaryCorpus),
           result \in OracleVerdicts :
          /\ ia # ib
          /\ poems = ApplyVerdict(SummaryCorpus, ia, ib, result, {}, {})
          /\ log = <<LogEntry(SummaryCorpus, ia, ib, result)>>
          /\ applied = 1
          /\ stats = Tallied(ZeroStats, result.winner)
  /\ disk = File(json_dumps(poems))
  /\ ratings = NoFile
  /\ pc = "saved"
  /\ n = 0 /\ pairs = <<>> /\ attempts = 0 /\ warned = FALSE
  /\ i = 1 /\ attempt = 0 /\ sleeps = 0
  /\ response = NoResponse
  /\ sessions = 1 /\ requested = 1

NextSummary == SaveRatings

SpecSummary == InitSummary /\ [][NextSummary]_vars

(***************************************************************************)
(* SpecSelect: select_pairs with --pairs 1 on the corpus of thirteen poems *)
(* after sessions of one pair each in which poem 2 drew with poem 1 and    *)
(* then with poems 3, 4, ... in turn, up to ten of them: the tenth pushes  *)
(* poem 1 out of poem 2's recent_opponents.                                *)
(***************************************************************************)
RECURSIVE Met(_)
\* The store and history after poem 2 has met its first `rounds` opponents.
Met(rounds) ==
  IF rounds = 0 THEN [poems |-> SummaryCorpus, log |-> <<>>]
  ELSE LET before == Met(rounds - 1)
           ib == IF rounds = 1 THEN 1 ELSE rounds + 1
       IN [poems |-> ApplyVerdict(before.poems, 2, ib, DrawnThree, {}, {}),
           log |-> Append(before.log, LogEntry(before.poems, 2, ib, DrawnThree))]

SelectHistories == {1, RECENT_OPPONENT_MEMORY, RECENT_OPPONENT_MEMORY + 1}

InitSelect ==
  /\ \E rounds \in SelectHistories :
       /\ poems = Met(rounds).poems
       /\ log = Met(rounds).log
  /\ disk = File(json_dumps(poems))
  /\ ratings = File(build_ratings_json(poems))
  /\ pc = "select"
  /\ n = 1 /\ pairs = <<>> /\ attempts = 0 /\ warned = FALSE
  /\ i = 1 /\ attempt = 0 /\ sleeps = 0 /\ stats = ZeroStats
  /\ response = NoResponse
  /\ applied = 0 /\ sessions = Len(log) + 1 /\ requested = Len(log) + 1

NextSelect == \E ia \in 1..Len(poems), ib \in 1..Len(poems) : SelectDraw(ia, ib)

SpecSelect == InitSelect /\ [][NextSelect]_vars

(***************************************************************************)
(* Properties.                                                             *)
(***************************************************************************)
Abs(x) == IF x < 0 THEN -x ELSE x

\* The match applied last, and where its two poems stand in a store.
Last(lg) == lg[Len(lg)]
LastA(ps, lg) == IndexOf(ps, Last(lg).a)
LastB(ps, lg) == IndexOf(ps, Last(lg).b)

\* The step applies one match.
Applies == applied' = applied + 1

RECURSIVE OpponentsOf(_, _)
\* The ids poem `id` met in the history, most recent first.
OpponentsOf(id, lg) ==
  IF Len(lg) = 0 THEN <<>>
  ELSE LET e == lg[Len(lg)]
           rest == OpponentsOf(id, SubSeq(lg, 1, Len(lg) - 1))
       IN IF e.a = id THEN <<e.b>> \o rest
          ELSE IF e.b = id THEN <<e.a>> \o rest
          ELSE rest

\* C1: in every state reached from a fresh corpus by update_elo applications,
\* every poem has matches = wins + losses + draws.
C1_MatchesAddUp ==
  \A j \in 1..Len(poems) :
     poems[j].matches = poems[j].wins + poems[j].losses + poems[j].draws

C1_Witness ==
  /\ applied >= 1
  /\ \E j \in 1..Len(poems) :
       poems[j].wins >= 1 /\ poems[j].draws >= 1 /\ poems[j].matches >= 2

\* C2: one update_elo adds exactly 1 to matches of both poems and 1 to exactly
\* one of wins/losses/draws of each, as the winner says (a: A wins, B loses;
\* b: A loses, B wins; draw: both draw); no other counter of any poem changes.
C2_OneMatchOneCounter ==
  [][Applies =>
       LET w == Last(log').result.winner
           ia == LastA(poems, log')
           ib == LastB(poems, log')
           Delta(j, f) == poems'[j][f] - poems[j][f]
       IN /\ Delta(ia, "matches") = 1 /\ Delta(ib, "matches") = 1
          /\ Delta(ia, "wins") = (IF w = "a" THEN 1 ELSE 0)
          /\ Delta(ia, "losses") = (IF w = "b" THEN 1 ELSE 0)
          /\ Delta(ia, "draws") = (IF w = "draw" THEN 1 ELSE 0)
          /\ Delta(ib, "wins") = (IF w = "b" THEN 1 ELSE 0)
          /\ Delta(ib, "losses") = (IF w = "a" THEN 1 ELSE 0)
          /\ Delta(ib, "draws") = (IF w = "draw" THEN 1 ELSE 0)
          /\ \A j \in 1..Len(poems) : j \notin {ia, ib} => poems'[j] = poems[j]
  ]_vars

C2_Witness ==
  /\ applied >= 2
  /\ Last(log).result.winner = "draw"
  /\ poems[LastA(poems, log)].draws >= 1 /\ poems[LastA(poems, log)].wins >= 1
  /\ poems[LastB(poems, log)].draws >= 1 /\ poems[LastB(poems, log)].losses >= 1

\* C3: each side's rating moves with the K of its own match count before the
\* match: 32 below 20 matches (so at 19), 16 from 20 on; the two sides of one
\* match may use different K.
C3_KFromOwnPriorCount ==
  applied >= 1 =>
    LET e == Last(log)
        ka == IF e.matches_a < 20 THEN 32 ELSE 16
        kb == IF e.matches_b < 20 THEN 32 ELSE 16
        ea == expected_score(e.elo_a, e.elo_b)
        s == ActualScores(e.result.winner)
        new_a == poems[LastA(poems, log)].elo
        new_b == poems[LastB(poems, log)].elo
    IN /\ new_a = NewElo(e.elo_a, ka, s[1], ea)
       /\ new_b = NewElo(e.elo_b, kb, s[2], One - ea)
       /\ (e.elo_a = e.elo_b /\ e.result.winner = "a") =>
            /\ e.matches_a = 19 => new_a = e.elo_a + 160
            /\ e.matches_a = 20 => new_a = e.elo_a + 80
            /\ e.matches_b = 19 => new_b = e.elo_b - 160
            /\ e.matches_b = 20 => new_b = e.elo_b - 80

C3_Witness ==
  /\ applied >= 1
  /\ Last(log).matches_a = 20 /\ Last(log).matches_b < 20
  /\ Last(log).elo_a = Last(log).elo_b /\ Last(log).result.winner = "a"
  /\ poems[LastA(poems, log)].elo = Last(log).elo_a + 80
  /\ poems[LastB(poems, log)].elo = Last(log).elo_b - 160

\* C4: two poems at 1500 with 0 matches, one verdict with winner a and every
\* dimension 3 on both sides: A 1516.0, B 1484.0, A one win in one match, B one
\* loss in one match, dim_averages["cut"] 3.0 for both.
C4_Scenario ==
  ( /\ Len(poems) = 2 /\ Len(log) = 1
    /\ log[1].a = poems[1].id
    /\ log[1].result = Verdict(Uniform(3), Uniform(3), "a", "x") )
  => /\ poems[1].elo = 15160 /\ poems[2].elo = 14840
     /\ poems[1].wins = 1 /\ poems[1].matches = 1
     /\ poems[2].losses = 1 /\ poems[2].matches = 1
     /\ poems[1].dim_averages["cut"] = 300
     /\ poems[2].dim_averages["cut"] = 300

C4_Witness ==
  /\ Len(poems) = 2 /\ Len(log) = 1
  /\ log[1].a = poems[1].id
  /\ log[1].result = Verdict(Uniform(3), Uniform(3), "a", "x")
  /\ pc = "saved"

\* C5: equal ratings and equal match counts before the match, A wins: A gains
\* and B loses the same amount, K/2 for the K of that count, and the sum of the
\* two ratings is unchanged.
C5_EqualAndOpposite ==
  ( /\ applied >= 1
    /\ Last(log).elo_a = Last(log).elo_b
    /\ Last(log).matches_a = Last(log).matches_b
    /\ Last(log).result.winner = "a" )
  => LET e == Last(log)
         gain == poems[LastA(poems, log)].elo - e.elo_a
         loss == e.elo_b - poems[LastB(poems, log)].elo
     IN /\ gain = loss
        /\ gain = (IF e.matches_a < 20 THEN 160 ELSE 80)
        /\ poems[LastA(poems, log)].elo + poems[LastB(poems, log)].elo
             = e.elo_a + e.elo_b

C5_Witness ==
  /\ applied >= 1
  /\ Last(log).elo_a = Last(log).elo_b
  /\ Last(log).matches_a = 20 /\ Last(log).matches_b = 20
  /\ Last(log).result.winner = "a"
  /\ poems[LastA(poems, log)].elo = Last(log).elo_a + 80

\* C6: a dimension's average is the score itself after the first score, a
\* nearest hundredth to (v1 + v2) / 2 after the second, and in general a nearest
\* hundredth to (avg * (n - 1) + val) / n, n the already incremented count.
C6_RollingAverage ==
  [][Applies =>
       LET e == Last(log')
           Ok(j, scores) ==
             \A d \in Dims :
                LET prev == poems[j].dim_averages[d]
                    new == poems'[j].dim_averages[d]
                    cnt == poems'[j].matches
                IN /\ cnt = poems[j].matches + 1
                   /\ prev = None => new = scores[d]
                   /\ cnt = 1 => new = scores[d]
                   /\ cnt = 2 => 2 * Abs(2 * new - (prev + scores[d])) <= 2
                   /\ prev # None =>
                        2 * Abs(new * cnt - (prev * (cnt - 1) + scores[d])) <= cnt
       IN Ok(LastA(poems, log'), e.result.a) /\ Ok(LastB(poems, log'), e.result.b)
  ]_vars

C6_Witness ==
  \E j \in 1..Len(poems) :
     /\ poems[j].matches = 2
     /\ poems[j].dim_averages["cut"] = 400
     /\ poems[j].dim_averages["economy"] = 200
     /\ poems[j].dim_averages["resonance"] = 325

\* C7: recent_opponents holds the poem's opponents most recent first, the
\* latest at the head, cut to the 10 most recent: the oldest are dropped.
C7_RecentOpponents ==
  \A j \in 1..Len(poems) :
     /\ Len(poems[j].recent_opponents) <= 10
     /\ poems[j].recent_opponents = Take(OpponentsOf(poems[j].id, log), 10)

C7_Witness ==
  \E j \in 1..Len(poems) :
     LET all == OpponentsOf(poems[j].id, log)
     IN /\ applied >= 1
        /\ Len(all) >= 11
        /\ Len(poems[j].recent_opponents) = 10
        /\ all[11] # poems[j].recent_opponents[10]
        /\ \E x, y \in 1..10 :
             poems[j].recent_opponents[x] # poems[j].recent_opponents[y]

\* C8: after any sequence of sessions from a fresh corpus no poem's
\* recent_opponents holds the same id twice.
C8_NoDuplicateOpponent ==
  \A j \in 1..Len(poems) :
     \A x, y \in 1..Len(poems[j].recent_opponents) :
        x # y => poems[j].recent_opponents[x] # poems[j].recent_opponents[y]

\* C9: every pair select_pairs returns has two different poems and B's id not
\* in A's recent_opponents, on the store as select_pairs saw it.
C9_SelectedPairsValid ==
  (pc = "select" \/ (pc = "loop" /\ i = 1 /\ attempt = 0)) =>
    \A x \in 1..Len(pairs) :
       LET a == poems[pairs[x][1]]
           b == poems[pairs[x][2]]
       IN /\ pairs[x][1] # pairs[x][2]
          /\ a.id # b.id
          /\ ~InSeq(b.id, a.recent_opponents)

C9_Witness ==
  /\ pc = "loop" /\ i = 1 /\ attempt = 0
  /\ Len(poems) >= 3
  /\ Len(pairs) >= 1
  /\ poems[pairs[1][1]].recent_opponents # <<>>

\* C10: select_pairs makes at most 20 * n draw attempts, returns at most n
\* pairs, warns when it returns fewer, and does not fail: the session goes on.
C10_SelectBoundedNoFailure ==
  /\ pc = "select" => attempts <= 20 * n /\ Len(pairs) <= n
  /\ pc \in {"loop", "saved"} =>
       Len(pairs) <= n /\ (warned <=> Len(pairs) < n)
  /\ pc # "crashed"

\* What holds of select_pairs on every corpus the run does not fail on.
SelectBounded ==
  /\ pc = "select" => attempts <= 20 * n /\ Len(pairs) <= n
  /\ pc \in {"loop", "saved"} =>
       Len(pairs) <= n /\ (warned <=> Len(pairs) < n)
  /\ pc = "crashed" => Len(poems) = 0

\* C11: on a corpus of fewer than two poems select_pairs makes no draw attempt
\* and raises no error, whatever n is: it returns no pair at once.
C11_SmallCorpusNoAttempt ==
  (pc \in {"select", "crashed"} /\ Len(poems) < 2) =>
    attempts = 0 /\ pairs = <<>> /\ pc # "crashed"

\* A JSON number: an integer or a real, not true or false.
IsJsonNumber(val) == val.kind \in {"int", "float"}

\* Both sides present, each with all six dimensions a number in [1, 5], and
\* the winner one of a, b, draw.
MeetsCriteria(r) ==
  /\ r.parsed
  /\ \A side \in {"a", "b"} :
       /\ side \in DOMAIN r
       /\ r[side].object
       /\ \A dim \in Dims :
            /\ dim \in DOMAIN r[side].fields
            /\ IsJsonNumber(r[side].fields[dim])
            /\ Score <= r[side].fields[dim].v
            /\ r[side].fields[dim].v <= 5 * Score
  /\ "winner" \in DOMAIN r
  /\ r.winner \in {"a", "b", "draw"}

\* The step is an oracle call of judge_pair that gave a response.
Responds ==
  /\ Judging
  /\ response' # NoResponse
  /\ attempt' = attempt + 1 \/ applied' = applied + 1

\* C12: a response is accepted (returned and applied) exactly when both sides
\* are present, each has the six dimensions with a numeric value in [1, 5], and
\* the winner is a, b or draw; any other response changes nothing in the store
\* and counts as a failed attempt of the same pair.
C12_AcceptedExactlyWhenValid ==
  [][Responds =>
       /\ (applied' = applied + 1) <=> MeetsCriteria(response')
       /\ ~MeetsCriteria(response') =>
            poems' = poems /\ i' = i /\ attempt' = attempt + 1]_vars

\* What holds of every response: it is accepted exactly when it meets the
\* criteria with true and false read as the numbers 1 and 0, and the responses
\* with a missing dimension, a value of 6 or the winner "c" are rejected.
AcceptedIffValidates ==
  [][Responds =>
       /\ (applied' = applied + 1) <=>
            (MeetsCriteria(response') \/ response' = ValueTrue)
       /\ response' \in {MissingDim, ValueSix, WinnerC} =>
            poems' = poems /\ i' = i /\ attempt' = attempt + 1]_vars

\* C13: every verdict judge_pair returned has, on both sides, each of the six
\* dimensions an integer in 1..5 and a total that is their sum, in 6..30.
C13_IntegerScoresAndTotal ==
  \A k \in 1..Len(log) :
     \A side \in {"a", "b"} :
        LET scores == log[k].result[side]
        IN /\ \A d \in Dims : scores[d] \in {c * Score : c \in 1..5}
           /\ scores["total"] = SumOver(scores, Dims)
           /\ 6 * Score <= scores["total"] /\ scores["total"] <= 30 * Score

\* What holds of every returned verdict: each dimension lies in [1, 5] and the
\* total is the sum of the six, in [6, 30].
ScoresInRangeAndTotal ==
  \A k \in 1..Len(log) :
     \A side \in {"a", "b"} :
        LET scores == log[k].result[side]
        IN /\ \A d \in Dims : Score <= scores[d] /\ scores[d] <= 5 * Score
           /\ scores["total"] = SumOver(scores, Dims)
           /\ 6 * Score <= scores["total"] /\ scores["total"] <= 30 * Score

\* C14: judge_pair calls the oracle at most 3 times for a pair; a failed
\* attempt (transport error, timeout, invalid response) leaves the pair and the
\* store as they are; the first response that parses and validates is returned
\* with no further attempt; None is returned exactly after three failed
\* attempts; and none of this raises to main.
C14_AtMostThreeAttempts ==
  [][Judging =>
       /\ attempt <= 3 /\ attempt' <= 3
       /\ attempt' = attempt + 1 =>
            attempt < 3 /\ i' = i /\ poems' = poems /\ stats' = stats
       /\ applied' = applied + 1 =>
            /\ attempt < 3
            /\ ~Falsy(response') /\ validate_scores(response') = "true"
            /\ Last(log').result = Returned(response')
            /\ i' = i + 1 /\ attempt' = 0
       /\ (i' = i + 1 /\ applied' = applied) <=> attempt = 3
       /\ attempt = 3 => stats'.errors = stats.errors + 1
       /\ pc' # "crashed"]_vars

\* One pair ended in None after three failed attempts, then the next pair got
\* a verdict.
C14_Witness ==
  /\ pc = "loop" /\ i = 3
  /\ stats.errors = 1 /\ applied = 1
  /\ response # NoResponse

\* C15: whenever judge_pair is about to make a further attempt for a pair, a
\* backoff sleep has followed each of the attempts that failed before it.
C15_BackoffBetweenAttempts ==
  (Judging /\ attempt > 0 /\ attempt < 3) => sleeps = attempt

\* What holds of the backoff: a call that raised is followed by one sleep.
BackoffAfterRaise ==
  [][(Judging /\ attempt' = attempt + 1 /\ response' = NoResponse) =>
       sleeps' = sleeps + 1]_vars

\* C16: when judge_pair has returned None, main adds one to the error count,
\* changes no poem and no other tally, writes nothing, and goes to the next
\* pair with what earlier pairs applied still in the store.
C16_FailureIsolated ==
  [][(Judging /\ attempt = 3) =>
       /\ stats' = [stats EXCEPT !.errors = @ + 1]
       /\ poems' = poems /\ log' = log /\ applied' = applied
       /\ disk' = disk /\ ratings' = ratings
       /\ i' = i + 1 /\ pc' = "loop"]_vars

\* The first pair was applied, the second ended in None.
C16_Witness ==
  /\ pc = "loop" /\ i = 3
  /\ stats.errors = 1 /\ applied = 1
  /\ response = NoResponse
  /\ poems[pairs[1][1]].matches = 1

\* The matches a store holds: each is counted by both of its poems.
MatchesIn(ps) == SumField(ps, "matches", {"ai", "human"}) \div 2

\* The matches the running session has applied.
AppliedInRun == stats.wins_a + stats.wins_b + stats.draws

RECURSIVE WinsOf(_, _)
\* The matches of the history that poem `id` won.
WinsOf(id, lg) ==
  IF Len(lg) = 0 THEN 0
  ELSE LET e == lg[Len(lg)]
           won == \/ e.a = id /\ e.result.winner = "a"
                  \/ e.b = id /\ e.result.winner = "b"
       IN (IF won THEN 1 ELSE 0) + WinsOf(id, SubSeq(lg, 1, Len(lg) - 1))

\* C17: while a session selects and judges, the corpus file is whole and holds
\* what the run found, without the matches of this run; the file changes only
\* in the one write_text call that follows the loop, which leaves the whole
\* in-memory store in it; a run ends normally only after that write; and a
\* kill before the write leaves the file as it was.
C17_WrittenOnceAfterLoop ==
  /\ [](pc \in {"select", "loop"} =>
          /\ disk.exists /\ disk.whole
          /\ MatchesIn(json_loads(disk.content)) + AppliedInRun = Len(log)
          /\ MatchesIn(poems) = Len(log))
  /\ [][/\ disk' # disk =>
             \/ pc = "loop" /\ i > Len(pairs) /\ pc' = "saving"
             \/ pc = "saving" /\ pc' = "saved" /\ json_loads(disk'.content) = poems
        /\ pc' = "done" => pc = "saved" /\ disk' = disk /\ disk.whole
        /\ (pc \in {"select", "loop"} /\ pc' = "killed") =>
             disk' = disk /\ log' = Take(log, MatchesIn(json_loads(disk.content)))]_vars

\* The loop of a second run has ended with two matches applied in memory, while
\* the file still holds what the run before wrote, without them.
C17_Witness ==
  /\ pc = "loop" /\ i > Len(pairs)
  /\ sessions = 2 /\ ratings.exists
  /\ AppliedInRun = 2
  /\ disk.whole /\ MatchesIn(json_loads(disk.content)) = 0

\* C18: whenever the corpus file exists and no write_text call is under way, it
\* holds a whole snapshot, also after a run was killed in the middle of saving.
C18_WholeSnapshot ==
  (disk.exists /\ pc # "saving") => disk.whole

\* C19: when a session has written the corpus, the file holds the in-memory
\* store, and that store has every match of the history applied: each poem's
\* match and win counts and its recent opponents are those of the history.
C19_PersistedEqualsStore ==
  pc = "saved" =>
    /\ disk.whole /\ json_loads(disk.content) = poems
    /\ MatchesIn(json_loads(disk.content)) = Len(log)
    /\ \A j \in 1..Len(poems) :
         LET kept == json_loads(disk.content)[j]
         IN /\ kept.matches = Len(OpponentsOf(poems[j].id, log))
            /\ kept.wins = WinsOf(poems[j].id, log)
            /\ kept.recent_opponents =
                 Take(OpponentsOf(poems[j].id, log), RECENT_OPPONENT_MEMORY)

\* A session of two pairs, one applied and one ended in None, has written.
C19_Witness ==
  /\ pc = "saved"
  /\ stats.errors = 1 /\ AppliedInRun = 1
  /\ Len(disk.content) = 3

\* C20: a run that finds the corpus file missing or not a whole JSON text ends
\* at once with an error exit: it selects no pair, calls no oracle, applies
\* nothing and writes neither file.
C20_AbortBeforeWork ==
  /\ [](pc \in {"aborted", "unreadable"} =>
          /\ ~(disk.exists /\ disk.whole)
          /\ poems = <<>> /\ pairs = <<>>
          /\ attempts = 0 /\ attempt = 0 /\ response = NoResponse)
  /\ [][(Stopped /\ sessions' = sessions + 1 /\ ~(disk.exists /\ disk.whole)) =>
          /\ pc' = IF disk.exists THEN "unreadable" ELSE "aborted"
          /\ disk' = disk /\ ratings' = ratings
          /\ poems' = poems /\ pairs' = pairs /\ log' = log
          /\ attempts' = attempts /\ attempt' = attempt]_vars

\* A run found the file a killed run had left half written.
C20_Witness ==
  /\ pc = "unreadable"
  /\ disk = TornFile

\* C21: a session that applies no match (no pair requested, none found, or
\* every judge call failed) writes a corpus with the same poems in the same
\* order and every field as it was loaded: the store stays what json.loads gave
\* for the file, and the text written is the text that was read.
C21_NoMatchSessionIdentity ==
  /\ []((pc \in {"select", "loop"} /\ AppliedInRun = 0) =>
          /\ disk.whole
          /\ poems = json_loads(disk.content)
          /\ json_dumps(poems) = disk.content)
  /\ []((pc = "saved" /\ Len(log) = 0) =>
          disk = File(json_dumps(FreshCorpus(Len(poems)))))
  /\ [][(pc \in {"loop", "saving"} /\ pc' \in {"saving", "saved"}
           /\ AppliedInRun = 0) =>
          /\ poems' = poems /\ stats' = stats
          /\ pc' = "saved" => disk' = File(json_dumps(poems))]_vars

\* The second session, on a corpus that holds a match, had its one pair end in
\* None and has written the corpus.
C21_Witness ==
  /\ pc = "saved" /\ sessions = 2
  /\ Len(log) = 1 /\ AppliedInRun = 0
  /\ stats.errors = 1
  /\ \E j \in 1..Len(poems) : poems[j].dim_averages["cut"] # None

\* The matches the running session has applied, oldest first.
SessionLog == SubSeq(log, Len(log) - AppliedInRun + 1, Len(log))

\* C22: the pairs are judged and applied one at a time in the order
\* select_pairs returned them, and the update of pair i starts from the rating,
\* the match count (hence K) and the averages that the earlier applied pairs of
\* the session left on its two poems, not from those the session loaded.
C22_AppliedInOrderOnCurrent ==
  [][(Judging /\ Applies) =>
       LET ia == pairs[i][1]
           ib == pairs[i][2]
           e == Last(log')
           start == json_loads(disk.content)
           s == ActualScores(e.result.winner)
           ea == expected_score(poems[ia].elo, poems[ib].elo)
           Earlier(j) == Len(OpponentsOf(poems[j].id, SessionLog))
           Averaged(j, scores) ==
             \A d \in Dims :
                LET prev == poems[j].dim_averages[d]
                    new == poems'[j].dim_averages[d]
                    cnt == poems[j].matches + 1
                IN /\ prev = None => new = scores[d]
                   /\ prev # None =>
                        2 * Abs(new * cnt - (prev * (cnt - 1) + scores[d])) <= cnt
       IN /\ i' = i + 1
          /\ e.a = poems[ia].id /\ e.b = poems[ib].id
          /\ Len(SessionLog) < i
          /\ poems[ia].matches = start[ia].matches + Earlier(ia)
          /\ poems[ib].matches = start[ib].matches + Earlier(ib)
          /\ poems'[ia].matches = poems[ia].matches + 1
          /\ poems'[ib].matches = poems[ib].matches + 1
          /\ poems'[ia].elo = NewElo(poems[ia].elo, k_factor(poems[ia].matches), s[1], ea)
          /\ poems'[ib].elo = NewElo(poems[ib].elo, k_factor(poems[ib].matches), s[2], One - ea)
          /\ Averaged(ia, e.result.a) /\ Averaged(ib, e.result.b)
          /\ poems'[ia].recent_opponents[1] = poems[ib].id
          /\ Len(poems'[ia].recent_opponents) = Len(poems[ia].recent_opponents) + 1
  ]_vars

\* The second pair of a session shared a poem with the first, whose match had
\* moved that poem's rating.
C22_Witness ==
  /\ pc = "loop" /\ i = 3
  /\ AppliedInRun = 2
  /\ Last(log).matches_a = 1
  /\ Last(log).elo_a # BaseElo
  /\ Last(log).elo_a # json_loads(disk.content)[LastA(poems, log)].elo

\* C23: whenever a match between A and B is applied, B's id is not in A's
\* recent_opponents at that moment: within a session the same two poems are not
\* matched again while the earlier match is in the memory.
C23_NoImmediateRematch ==
  [][(Judging /\ Applies) =>
       ~InSeq(poems[pairs[i][2]].id, poems[pairs[i][1]].recent_opponents)]_vars

\* What holds of the memory at application: B is not among the opponents A had
\* when the session loaded the corpus.
NoRematchAcrossSessions ==
  [][(Judging /\ Applies) =>
       ~InSeq(poems[pairs[i][2]].id,
              json_loads(disk.content)[pairs[i][1]].recent_opponents)]_vars

\* C24: build_ratings_json reads the store and writes nothing to it: when the
\* summary has been built, every poem, every field of a poem and the order of
\* the poems are as before, and the corpus file is untouched.
C24_SummaryLeavesStore ==
  [][(pc = "saved" /\ ratings' # ratings) =>
       /\ ratings' = File(build_ratings_json(poems))
       /\ poems' = poems
       /\ disk' = disk /\ log' = log]_vars

\* A summary was built whose leaderboard starts with another poem than the
\* store, and the store is still the one the corpus file holds.
C24_Witness ==
  /\ pc = "done" /\ ratings.exists
  /\ Len(poems) > TopCount
  /\ ratings.content.poems[1].id # poems[1].id
  /\ poems = json_loads(disk.content)

\* The sum of one counter over all the poems of a store.
SumAll(ps, field) == SumField(ps, field, {"ai", "human"})

\* C25: after any sequence of sessions from a fresh corpus the sum of all
\* poems' matches is even and twice the number of matches applied, and the
\* summary's total_matches is that number: each match is counted once.
C25_TotalMatchesCountsOnce ==
  /\ pc \in {"select", "loop", "saving", "saved", "done"} =>
       /\ SumAll(poems, "matches") % 2 = 0
       /\ SumAll(poems, "matches") = 2 * Len(log)
  /\ pc = "done" => ratings.content.total_matches = Len(log)

\* Two sessions of one match each have ended, the second with its summary.
C25_Witness ==
  /\ pc = "done" /\ sessions = 2
  /\ Len(log) = 2
  /\ ratings.content.total_matches = 2
  /\ \E j \in 1..Len(poems) : poems[j].matches = 2

RECURSIVE DrawnIn(_)
\* The matches of a history whose winner was "draw".
DrawnIn(lg) ==
  IF Len(lg) = 0 THEN 0
  ELSE (IF lg[Len(lg)].result.winner = "draw" THEN 1 ELSE 0)
         + DrawnIn(SubSeq(lg, 1, Len(lg) - 1))

\* C26: a draw is recorded on both of its poems: in every state the sum of
\* draws over the store is even and twice the number of applied matches whose
\* winner was draw, so the summary's draws, that sum halved, is their number.
C26_DrawsSymmetric ==
  /\ SumAll(poems, "draws") % 2 = 0
  /\ SumAll(poems, "draws") = 2 * DrawnIn(log)
  /\ build_ratings_json(poems).draws = DrawnIn(log)
  /\ applied >= 1 /\ Last(log).result.winner = "draw" =>
       /\ poems[LastA(poems, log)].draws >= 1
       /\ poems[LastB(poems, log)].draws >= 1

\* A poem with nineteen draws behind it has drawn again and then won.
C26_Witness ==
  /\ applied = 2
  /\ DrawnIn(log) = 20
  /\ Last(log).result.winner # "draw"
  /\ build_ratings_json(poems).draws = 20

\* The ids of the entries of a list of the summary.
IdsOf(list) == {list[r].id : r \in 1..Len(list)}

\* The entries of a list stand in non-increasing order of rating.
NonIncreasing(list) ==
  \A r \in 1..Len(list) : \A t \in 1..Len(list) : r < t => list[r].elo >= list[t].elo

\* A top list of the poems of one source: at most 10 entries without
\* repetition, each a poem of that source with its rating, in non-increasing
\* order, and no poem of the source that is left out rated above one in it.
TopListOf(list, source) ==
  /\ Len(list) <= 10
  /\ Cardinality(IdsOf(list)) = Len(list)
  /\ \A r \in 1..Len(list) :
       \E j \in 1..Len(poems) :
          /\ poems[j].id = list[r].id
          /\ poems[j].source = source
          /\ poems[j].elo = list[r].elo
  /\ NonIncreasing(list)
  /\ \A j \in 1..Len(poems) :
       (poems[j].source = source /\ poems[j].id \notin IdsOf(list)) =>
          /\ Len(list) = 10
          /\ \A r \in 1..Len(list) : poems[j].elo <= list[r].elo

\* C27: the leaderboard of the summary holds every poem of the store exactly
\* once, in non-increasing order of rating; top_ai and top_human hold at most
\* 10 poems each, all of their source, in non-increasing order of rating, and
\* no poem left out of a top list is rated above a poem in it.
C27_LeaderboardAndTopLists ==
  pc = "done" =>
    LET summary == ratings.content
    IN /\ Len(summary.poems) = Len(poems)
       /\ \A j \in 1..Len(poems) :
            Cardinality({r \in 1..Len(summary.poems) :
                           summary.poems[r].id = poems[j].id}) = 1
       /\ \A r \in 1..Len(summary.poems) :
            \E j \in 1..Len(poems) :
               /\ poems[j].id = summary.poems[r].id
               /\ poems[j].elo = summary.poems[r].elo
       /\ NonIncreasing(summary.poems)
       /\ TopListOf(summary.top_ai, "ai")
       /\ TopListOf(summary.top_human, "human")

\* Of eleven AI poems one has won a match, against another of them: it heads
\* top_ai, and the loser is the one poem left out.
C27_Witness ==
  /\ pc = "done"
  /\ Len(ratings.content.top_ai) = 10
  /\ ratings.content.top_ai[1].elo > BaseElo
  /\ ratings.content.top_ai[1].id # poems[3].id
  /\ \E j \in 1..Len(poems) :
       /\ poems[j].source = "ai" /\ poems[j].elo < BaseElo
       /\ poems[j].id \notin IdsOf(ratings.content.top_ai)

\* The source of the poem `id` of the store.
SourceOf(id) == poems[IndexOf(poems, id)].source

RECURSIVE WonBy(_, _, _)
\* The matches of a history that a poem of `source` won, against a poem of any
\* source (across = FALSE) or of the other source only (across = TRUE).
WonBy(lg, source, across) ==
  IF Len(lg) = 0 THEN 0
  ELSE LET e == lg[Len(lg)]
           winner == IF e.result.winner = "a" THEN e.a
                     ELSE IF e.result.winner = "b" THEN e.b
                     ELSE "draw"
           counts == /\ winner # "draw"
                     /\ SourceOf(winner) = source
                     /\ across => SourceOf(e.a) # SourceOf(e.b)
       IN (IF counts THEN 1 ELSE 0) + WonBy(SubSeq(lg, 1, Len(lg) - 1), source, across)

\* C28: the summary's ai_wins is the number of applied matches between an AI
\* poem and a human poem that the AI poem won, and human_wins the number of
\* those the human poem won.
C28_HeadToHeadWins ==
  pc = "done" =>
    /\ ratings.content.ai_wins = WonBy(log, "ai", TRUE)
    /\ ratings.content.human_wins = WonBy(log, "human", TRUE)

\* What holds of the two counts: each is the number of matches the poems of
\* the source won, whoever the opponent was.
WinsOfEverySource ==
  pc = "done" =>
    /\ ratings.content.ai_wins = WonBy(log, "ai", FALSE)
    /\ ratings.content.human_wins = WonBy(log, "human", FALSE)

\* C29: in every state reached from a fresh corpus by applied matches, the
\* sum of wins over the store equals the sum of losses, and both are the
\* number of applied matches that were not draws.
C29_WinsEqualLosses ==
  /\ SumAll(poems, "wins") = SumAll(poems, "losses")
  /\ SumAll(poems, "wins") = Len(log) - DrawnIn(log)

\* After nineteen draws of poem 1, two decided matches, one of them won by a
\* poem that lost the other.
C29_Witness ==
  /\ applied = 2
  /\ Len(log) - DrawnIn(log) = 2
  /\ SumAll(poems, "losses") = 2
  /\ \E j \in 1..Len(poems) : poems[j].wins = 1 /\ poems[j].losses = 1 /\ poems[j].draws >= 1

\* C30: the exclusion of select_pairs holds both ways: of a returned pair
\* (A, B) neither is B's id in A's recent_opponents nor A's id in B's, also
\* when the cap has dropped the entry from one of the two lists only.
C30_SymmetricExclusion ==
  (pc = "loop" /\ i = 1 /\ attempt = 0) =>
    \A x \in 1..Len(pairs) :
       LET a == poems[pairs[x][1]]
           b == poems[pairs[x][2]]
       IN /\ ~InSeq(b.id, a.recent_opponents)
          /\ ~InSeq(a.id, b.recent_opponents)

\* What holds of a returned pair: B is not in A's list, and A is in B's list
\* only when A has met RECENT_OPPONENT_MEMORY opponents since it met B.
ExclusionOneWay ==
  (pc = "loop" /\ i = 1 /\ attempt = 0) =>
    \A x \in 1..Len(pairs) :
       LET a == poems[pairs[x][1]]
           b == poems[pairs[x][2]]
       IN /\ ~InSeq(b.id, a.recent_opponents)
          /\ InSeq(a.id, b.recent_opponents) =>
               /\ a.matches > RECENT_OPPONENT_MEMORY
               /\ Len(a.recent_opponents) = RECENT_OPPONENT_MEMORY

====
